---- MODULE Spec2Model ----
(***************************************************************************)
(* A model of the MoonBit markdown linter (src/markdown-linter.ts, the     *)
(* first program of that file, lines 1-413).                               *)
(*                                                                         *)
(* Representation of strings:                                              *)
(*  - a text (fence content, wrapper template, generated source) is a      *)
(*    sequence of atoms; the atom "\n" is the newline character and every  *)
(*    other atom is a newline-free chunk of text;                          *)
(*  - a fence info string is the sequence of words that                    *)
(*    codeInfo.split(" ") yields;                                          *)
(*  - the --suppress value is a sequence of one-character strings.         *)
(***************************************************************************)
EXTENDS Integers, Sequences, FiniteSets, TLC

(***************************************************************************)
(* Bounds of the model.                                                    *)
(***************************************************************************)
\* fences per document in the mapping specification
MaxFences == 2
\* content lines per fence
MaxContent == 2
\* lines of prose in front of every fence
ProseLines == 1
\* documents named on the command line
NumFiles == 2
\* fences per document in the whole-program specification
MaxRunFences == 1
\* lines of checker output per document
MaxOut == 2
\* items of the --suppress list
MaxItems == 2

NL == "\n"

Units == {"top.mbt", "lib.mbt"}

Kinds == {"normal", "expr", "no-check", "enclose"}

(***************************************************************************)
(* Texts.                                                                  *)
(***************************************************************************)
\* the text of the document's line d (1-based): every line is distinct
LineText(d) == "L" \o ToString(d)

\* countLines: str.split("\n").length - 1, the number of newline characters
countLines(str) == Len(SelectSeq(str, LAMBDA a : a = NL))

\* str.replace(/^/gm, "  "): two blanks at the start of the text and after
\* every newline (the end of the text included)
RECURSIVE IndentFrom(_, _)
IndentFrom(str, i) ==
    IF i > Len(str) THEN <<>>
    ELSE IF str[i] = NL THEN <<NL, "  ">> \o IndentFrom(str, i + 1)
    ELSE <<str[i]>> \o IndentFrom(str, i + 1)

\* an indentation that puts the two blanks on a line of their own
Indent_OwnLine(str) ==
    <<"  ", NL>> \o IndentFrom(str, 1)

Indent(str) ==
    <<"  ">> \o IndentFrom(str, 1)

\* the content of a fence whose opening delimiter is the 0-based line m0 and
\* which holds n lines: markdown-it ends every content line with a newline
RECURSIVE FenceContent(_, _)
FenceContent(m0, n) ==
    IF n = 0 THEN <<>>
    ELSE FenceContent(m0, n - 1) \o <<LineText(m0 + 1 + n), NL>>

(***************************************************************************)
(* Fence info strings, by word.                                            *)
(***************************************************************************)
\* codeInfo.toLowerCase().startsWith("mbt") || ...startsWith("moonbit")
IsMoonBit(info) ==
    /\ Len(info) > 0
    /\ info[1] \in {"moonbit", "mbt", "MoonBit"}

\* info[1].toLowerCase() in the switch
KindOfWord(w) ==
    CASE w \in {"expr", "EXPR"} -> "expr"
      [] w \in {"no-check", "No-Check"} -> "no-check"
      [] w \in {"enclose"} -> "enclose"
      [] OTHER -> "normal"

\* arg.match(/(?<=-e)\d+/gi): the numbers read by parseInt, in order
ErrCodesOfWord(w) ==
    CASE w = "-e1001" -> <<1001>>
      [] w = "-E1002" -> <<1002>>
      [] w = "-e1001-e1002" -> <<1001, 1002>>
      [] OTHER -> <<>>

\* arg.match(/(?<=-f=).*mbt/gi): basename of the first match, <<>> for null
FileNamesOfWord(w) ==
    CASE w = "-f=lib.mbt" -> <<"lib.mbt">>
      [] w = "-f=src/lib.mbt" -> <<"lib.mbt">>
      [] w = "-f=top.mbt" -> <<"top.mbt">>
      [] OTHER -> <<>>

\* info.forEach(arg => fileBelonged = fileNames ? basename(...) : fileBelonged)
RECURSIVE FileBelonged(_, _, _)
FileBelonged(info, i, acc) ==
    IF i > Len(info) THEN acc
    ELSE FileBelonged(info, i + 1,
            IF FileNamesOfWord(info[i]) # <<>>
            THEN FileNamesOfWord(info[i])[1] ELSE acc)

\* info.forEach(arg => errCodes?.forEach(errCode => errSet.add(...)))
InlineCodes(info) ==
    UNION { { ErrCodesOfWord(info[i])[k] : k \in 1..Len(ErrCodesOfWord(info[i])) }
            : i \in 1..Len(info) }

KindOfInfo(info) == IF Len(info) > 1 THEN KindOfWord(info[2]) ELSE "normal"

\* the CodeBlock pushed for a token
MakeBlock(token) ==
    [ content      |-> token.content,
      kind         |-> KindOfInfo(token.info),
      beginLine    |-> token.map[1] + 1,
      endLine      |-> token.map[2] + 1,
      fileBelonged |-> IF Len(token.info) > 1
                       THEN FileBelonged(token.info, 1, "top.mbt")
                       ELSE "top.mbt" ]

(***************************************************************************)
(* Documents: what md.parse returns for the fences of a document.          *)
(***************************************************************************)
\* a fence token whose opening delimiter is the 0-based line m0
FenceToken(info, m0, n) ==
    [ info |-> info, content |-> FenceContent(m0, n), map |-> <<m0, m0 + n + 2>> ]

\* the tokens of a document made of the fences shape[1], shape[2], ..., each a
\* pair <<info, n>>, with ProseLines lines of prose in front of each
RECURSIVE TokensOf(_, _)
TokensOf(shape, k) ==
    IF k = 0 THEN <<>>
    ELSE LET before == TokensOf(shape, k - 1)
             m0 == (IF k = 1 THEN 0 ELSE before[k - 1].map[2]) + ProseLines
         IN  Append(before, FenceToken(shape[k][1], m0, shape[k][2]))

DocsOf(infos, maxFences, sizes) ==
    { TokensOf(shape, Len(shape)) :
        shape \in UNION { [1..k -> infos \X sizes] : k \in 0..maxFences } }

MapInfos ==
    { <<"moonbit">>, <<"mbt", "expr">>, <<"moonbit", "no-check">>,
      <<"moonbit", "enclose">>, <<"moonbit", "-f=lib.mbt">>,
      <<"MoonBit", "EXPR", "-f=src/lib.mbt">>, <<"js">> }

MapDocs == DocsOf(MapInfos, MaxFences, 0..MaxContent)

(***************************************************************************)
(* The --suppress value, lines 78-89, by character.                        *)
(***************************************************************************)
DigitChars == <<"0", "1", "2", "3", "4", "5", "6", "7", "8", "9">>

IsDigit(c) == \E v \in 1..Len(DigitChars) : DigitChars[v] = c

DigitValue(c) == (CHOOSE v \in 1..Len(DigitChars) : DigitChars[v] = c) - 1

\* the value parseInt gives when no digit can be read (the lists of the model
\* hold no signed item, so no number read is negative)
NaN == -1

\* the digits at the front of s, read as a decimal number after acc
RECURSIVE ReadDigits(_, _)
ReadDigits(s, acc) ==
    IF s = <<>> \/ ~IsDigit(Head(s)) THEN acc
    ELSE ReadDigits(Tail(s), 10 * acc + DigitValue(Head(s)))

RECURSIVE SkipBlanks(_)
SkipBlanks(s) ==
    IF s # <<>> /\ Head(s) = " " THEN SkipBlanks(Tail(s)) ELSE s

\* parseInt(s): leading blanks are skipped, then the longest run of decimal
\* digits is read; NaN when there is none (the alphabet of the model has no
\* sign and no "0x" prefix)
parseInt(s) ==
    LET t == SkipBlanks(s)
    IN  IF t = <<>> \/ ~IsDigit(Head(t)) THEN NaN ELSE ReadDigits(t, 0)

\* the item itself, no character dropped
substring1_Whole(s) == s

\* s.substring(1)
substring1(s) ==
    IF s = <<>> THEN <<>> ELSE Tail(s)

\* str.replace("=", ""): the first "=" is removed
RECURSIVE replaceEq(_)
replaceEq(str) ==
    IF str = <<>> THEN <<>>
    ELSE IF Head(str) = "=" THEN Tail(str)
    ELSE <<Head(str)>> \o replaceEq(Tail(str))

\* str.split(","): the pieces between the commas (one piece for no comma)
RECURSIVE split(_, _)
split(str, piece) ==
    IF str = <<>> THEN <<piece>>
    ELSE IF Head(str) = "," THEN <<piece>> \o split(Tail(str), <<>>)
    ELSE split(Tail(str), Append(piece, Head(str)))

\* lines 82-87: new Set(suppress.replace(...).split(",").map(...))
SuppressSet(value) ==
    LET items == split(replaceEq(value), <<>>)
    IN  { parseInt(substring1(items[i])) : i \in 1..Len(items) }

AllWarnings == <<"a", "l", "l", "-", "w", "a", "r", "n", "i", "n", "g", "s">>

(***************************************************************************)
(* Checker output and diagnostics, lines 102-120 and 348-357.              *)
(***************************************************************************)
\* basename(path)
basename(path) ==
    CASE path = "/proj/src/top.mbt" -> "top.mbt"
      [] path = "/proj/src/lib/lib.mbt" -> "lib.mbt"
      [] OTHER -> path

UnitPaths == {"/proj/src/top.mbt", "/proj/src/lib/lib.mbt"}

\* inputFile, the i-th positional of the command line
InputFile(i) == "doc" \o ToString(i) \o ".md"

\* a piece of a message: a path:line:col location (ref) or any other text
TextPart == [ref |-> FALSE, path |-> "", line |-> 0, col |-> 0]

RefPart(p, l, c) == [ref |-> TRUE, path |-> p, line |-> l, col |-> c]

\* a Diagnostic as the checker prints it
Diagnostic(level, path, sl, sc, el, ec, message, code) ==
    [ level |-> level,
      loc |-> [ path |-> path, start |-> [line |-> sl, col |-> sc],
                end |-> [line |-> el, col |-> ec] ],
      message |-> message,
      error_code |-> code ]

\* a line of the checker's output: "text" is no JSON, "null" is the JSON
\* null, "value" is JSON that carries no loc (such as {} or 1), "record" is
\* a Diagnostic; rec is meaningful for "record" only
NoRecord == Diagnostic("", "", 0, 0, 0, 0, <<>>, 0)

OutLine(form, rec) == [form |-> form, rec |-> rec]

\* lines 348-357: JSON.parse of every line, the failures and nulls dropped
Decode(output) ==
    SelectSeq(output, LAMBDA l : l.form \notin {"text", "null"})

(***************************************************************************)
(* The state of the process.                                               *)
(***************************************************************************)
VARIABLES
    pc,                       \* the position of the top-level program
    globalWarningsSuppressed, \* line 70
    errSet,                   \* line 71
    suppress,                 \* cli.values.suppress (<<>>: not given)
    ignore,                   \* cli.values.ignore
    hasErrors,                \* line 95
    fileIdx,                  \* index of inputFile in files (1-based)
    tokens,                   \* the fence tokens of md.parse(readme)
    tokIdx,                   \* tokens already classified
    codeBlocks,               \* line 187
    blockIdx,                 \* code blocks already wrapped
    sourceMap,                \* line 241: unit -> anchors (<<>>: no entry)
    line,                     \* line 242: unit -> cursor (0: no entry)
    processedCodeBlocks,      \* line 248: unit -> wrapped texts
    errList,                  \* line 348
    errIdx,                   \* diagnostics already handled by the loop
    printed,                  \* reports logged for the current document
    failedChecks,             \* history: the documents whose `moon check` failed
    exitCode                  \* status passed to process.exit (-1: running)

vars == << pc, globalWarningsSuppressed, errSet, suppress, ignore, hasErrors,
           fileIdx,
           tokens, tokIdx, codeBlocks, blockIdx, sourceMap, line,
           processedCodeBlocks, errList, errIdx, printed, failedChecks,
           exitCode >>

cliVars == << globalWarningsSuppressed, suppress, ignore >>
docVars == << tokens, tokIdx, codeBlocks >>
mapVars == << blockIdx, sourceMap, line, processedCodeBlocks >>
errVars == << errList, errIdx, printed >>

NoEntries == [u \in Units |-> <<>>]
NoLines == [u \in Units |-> 0]

(***************************************************************************)
(* processMarkdown, lines 181-238: tokens and classification.              *)
(***************************************************************************)
\* lines 182-186: read the document and tokenize it
ParseReadme(doc) ==
    /\ pc = "read"
    /\ pc' = "scaffold"
    /\ tokens' = doc
    /\ tokIdx' = 0
    /\ codeBlocks' = <<>>
    /\ blockIdx' = 0
    /\ sourceMap' = NoEntries
    /\ line' = NoLines
    /\ processedCodeBlocks' = NoEntries
    /\ errList' = <<>>
    /\ errIdx' = 0
    /\ printed' = <<>>
    /\ UNCHANGED << cliVars, errSet, hasErrors, fileIdx, failedChecks, exitCode >>

\* executeCommandLine with the flag assigned on both paths
executeCommandLine_Assign(ok) ==
    hasErrors' = ~ok

\* executeCommandLine, lines 122-134: ok is whether execSync returned
executeCommandLine(ok) ==
    hasErrors' = IF ok THEN hasErrors ELSE TRUE

\* makeTempProject, lines 146-166 (called at line 188)
MakeTempProject(ok) ==
    /\ pc = "scaffold"
    /\ pc' = "classify"
    /\ executeCommandLine(ok)
    /\ UNCHANGED << cliVars, errSet, fileIdx, docVars, mapVars, errVars,
                    failedChecks, exitCode >>

\* one iteration of tokens.forEach, lines 189-238
ClassifyToken ==
    /\ pc = "classify"
    /\ tokIdx < Len(tokens)
    /\ LET token == tokens[tokIdx + 1]
       IN  /\ tokIdx' = tokIdx + 1
           /\ IF IsMoonBit(token.info)
              THEN /\ codeBlocks' = Append(codeBlocks, MakeBlock(token))
                   /\ errSet' = IF Len(token.info) > 1 /\ ignore = FALSE
                                THEN errSet \cup InlineCodes(token.info)
                                ELSE errSet
              ELSE UNCHANGED << codeBlocks, errSet >>
    /\ UNCHANGED << pc, cliVars, hasErrors, fileIdx, tokens, mapVars, errVars,
                    failedChecks, exitCode >>

\* the wrapping loop entered without the forEach being over
ClassifyDone_Early ==
    /\ pc = "classify"
    /\ pc' = "wrap"
    /\ UNCHANGED << cliVars, errSet, hasErrors, fileIdx, docVars, mapVars,
                    errVars, failedChecks, exitCode >>

\* the forEach is over: on to the wrapping loop
ClassifyDone ==
    /\ pc = "classify"
    /\ tokIdx = Len(tokens)
    /\ pc' = "wrap"
    /\ UNCHANGED << cliVars, errSet, hasErrors, fileIdx, docVars, mapVars,
                    errVars, failedChecks, exitCode >>

(***************************************************************************)
(* processMarkdown, lines 250-307: wrapping and the anchor tables.         *)
(***************************************************************************)
\* the templates with the expr opening spread over two lines
Wrapper_TwoLineLeading(kind) ==
    CASE kind = "expr" ->
            [ leading |-> <<"fn init {", NL, "println({", NL>>,
              trailing |-> <<NL, "})}", NL>> ]
      [] kind = "enclose" ->
            [ leading |-> <<"fn init {", NL>>, trailing |-> <<NL, "}", NL>> ]
      [] OTHER -> [ leading |-> <<>>, trailing |-> <<>> ]

\* lines 251-264
Wrapper(kind) ==
    CASE kind = "expr" ->
            [ leading |-> <<"fn init {println({", NL>>,
              trailing |-> <<NL, "})}", NL>> ]
      [] kind = "enclose" ->
            [ leading |-> <<"fn init {", NL>>, trailing |-> <<NL, "}", NL>> ]
      [] OTHER -> [ leading |-> <<>>, trailing |-> <<>> ]

\* line 266: line.get(block.fileBelonged) || 1
Cursor(ln, f) == IF ln[f] = 0 THEN 1 ELSE ln[f]

\* lines 282-291: the two anchors pushed for a block
BlockAnchors(block, cur) ==
    LET leadingLines == countLines(Wrapper(block.kind).leading)
        contentLines == countLines(block.content)
    IN  << [ originalLine |-> block.beginLine + 1,
             generatedLine |-> cur + leadingLines ],
           [ originalLine |-> block.endLine - 1,
             generatedLine |-> cur + leadingLines + contentLines ] >>

\* lines 293-299 with the content lines left out of the sum
NextLine_NoContent(block, cur) ==
    cur + countLines(Wrapper(block.kind).leading)
        + countLines(Wrapper(block.kind).trailing)

\* lines 293-299: the cursor after the block
NextLine(block, cur) ==
    cur + countLines(Wrapper(block.kind).leading)
        + countLines(block.content)
        + countLines(Wrapper(block.kind).trailing)

\* lines 300-305: the generated text of the block
WrappedContent(block) ==
    Wrapper(block.kind).leading
    \o (IF block.kind = "expr" \/ block.kind = "enclose"
        THEN Indent(block.content) ELSE block.content)
    \o Wrapper(block.kind).trailing

\* the callback without the early return of case "no-check" (line 257)
WrapBlock_NoReturn(block, sm, ln, pcb) ==
    LET f == block.fileBelonged
        cur == Cursor(ln, f)
    IN  [ sourceMap |-> [sm EXCEPT ![f] = @ \o BlockAnchors(block, cur)],
          line |-> [ln EXCEPT ![f] = NextLine(block, cur)],
          processedCodeBlocks |->
              [pcb EXCEPT ![f] = Append(@, WrappedContent(block))] ]

\* the callback of codeBlocks.forEach applied to one block, lines 250-307
WrapBlock(block, sm, ln, pcb) ==
    IF block.kind = "no-check"
    THEN [ sourceMap |-> sm, line |-> ln, processedCodeBlocks |-> pcb ]
    ELSE LET f == block.fileBelonged
             cur == Cursor(ln, f)
         IN  [ sourceMap |-> [sm EXCEPT ![f] = @ \o BlockAnchors(block, cur)],
               line |-> [ln EXCEPT ![f] = NextLine(block, cur)],
               processedCodeBlocks |->
                   [pcb EXCEPT ![f] = Append(@, WrappedContent(block))] ]

\* one iteration of codeBlocks.forEach
ProcessBlock ==
    /\ pc = "wrap"
    /\ blockIdx < Len(codeBlocks)
    /\ LET r == WrapBlock(codeBlocks[blockIdx + 1], sourceMap, line,
                          processedCodeBlocks)
       IN  /\ sourceMap' = r.sourceMap
           /\ line' = r.line
           /\ processedCodeBlocks' = r.processedCodeBlocks
    /\ blockIdx' = blockIdx + 1
    /\ UNCHANGED << pc, cliVars, errSet, hasErrors, fileIdx, docVars, errVars,
                    failedChecks, exitCode >>

\* the forEach is over: the sources are assembled and written (lines 323-340)
WrapDone ==
    /\ pc = "wrap"
    /\ blockIdx = Len(codeBlocks)
    /\ pc' = "check"
    /\ UNCHANGED << cliVars, errSet, hasErrors, fileIdx, docVars, mapVars,
                    errVars, failedChecks, exitCode >>

\* lines 325-331: the generated source of a unit
RECURSIVE Concat(_)
Concat(texts) ==
    IF texts = <<>> THEN <<>> ELSE Head(texts) \o Concat(Tail(texts))

Source(u) == Concat(processedCodeBlocks[u])

(***************************************************************************)
(* getRealLine, lines 310-321.                                             *)
(***************************************************************************)
\* find, lines 311-318, with 0-based l, r as in the code; the result is the
\* 0-based index of the anchor returned (sm[l] may lie outside the table)
RECURSIVE find(_, _, _, _)
find(sm, ln, l, r) ==
    IF l >= r THEN l
    ELSE LET m == (l + r) \div 2
             currentLine == sm[m + 1].generatedLine
         IN  IF currentLine > ln THEN find(sm, ln, l, m - 1)
             ELSE IF currentLine < ln THEN find(sm, ln, m + 1, r)
             ELSE m

\* destructuring the result of find throws a TypeError when it is undefined
getRealLineThrows(sm, ln) ==
    LET i == find(sm, ln, 0, Len(sm) - 1) IN ~(i + 1 \in 1..Len(sm))

getRealLine(sm, ln) ==
    LET a == sm[find(sm, ln, 0, Len(sm) - 1) + 1]
    IN  a.originalLine + (ln - a.generatedLine)

(***************************************************************************)
(* The top-level program, lines 70-99 and 409-413.                         *)
(***************************************************************************)
\* the state after lines 20-76 and 91-95: the command line is parsed
InitWith(suppressArgs, ignoreArgs) ==
    /\ pc = "cli"
    /\ suppress \in suppressArgs
    /\ ignore \in ignoreArgs
    /\ globalWarningsSuppressed = FALSE
    /\ errSet = {}
    /\ hasErrors = FALSE
    /\ fileIdx = 1
    /\ tokens = <<>>
    /\ tokIdx = 0
    /\ codeBlocks = <<>>
    /\ blockIdx = 0
    /\ sourceMap = NoEntries
    /\ line = NoLines
    /\ processedCodeBlocks = NoEntries
    /\ errList = <<>>
    /\ errIdx = 0
    /\ printed = <<>>
    /\ failedChecks = {}
    /\ exitCode = -1

\* lines 78-89
ParseSuppress ==
    /\ pc = "cli"
    /\ pc' = "loop"
    /\ IF suppress = <<>>
       THEN UNCHANGED << globalWarningsSuppressed, errSet >>
       ELSE IF suppress = AllWarnings
       THEN globalWarningsSuppressed' = TRUE /\ UNCHANGED errSet
       ELSE errSet' = SuppressSet(suppress) /\ UNCHANGED globalWarningsSuppressed
    /\ UNCHANGED << suppress, ignore, hasErrors, fileIdx, docVars, mapVars,
                    errVars, failedChecks, exitCode >>

\* lines 97-99: the loop picks the next inputFile and calls processMarkdown
NextFile ==
    /\ pc = "loop"
    /\ fileIdx <= NumFiles
    /\ pc' = "read"
    /\ UNCHANGED << cliVars, errSet, hasErrors, fileIdx, docVars, mapVars,
                    errVars, failedChecks, exitCode >>

\* lines 409-413
Exit ==
    /\ pc = "loop"
    /\ fileIdx > NumFiles
    /\ pc' = "exited"
    /\ exitCode' = IF hasErrors THEN 1 ELSE 0
    /\ UNCHANGED << cliVars, errSet, hasErrors, fileIdx, docVars, mapVars,
                    errVars, failedChecks >>

(***************************************************************************)
(* processMarkdown, lines 342-407: the checker and its diagnostics.        *)
(***************************************************************************)
\* lines 343-357: `moon check` is run and its output decoded; ok is whether
\* execSync returned, output is what the checker wrote to stdout
RunCheck(ok, output) ==
    /\ pc = "check"
    /\ pc' = "report"
    /\ executeCommandLine(ok)
    /\ failedChecks' = IF ok THEN failedChecks ELSE failedChecks \cup {fileIdx}
    /\ errList' = Decode(output)
    /\ errIdx' = 0
    /\ UNCHANGED << cliVars, errSet, fileIdx, docVars, mapVars, printed,
                    exitCode >>

\* lines 369-374: level == "error" ? Error : "warning" ? Warning : level
errLvl(level) ==
    IF level = "error" THEN "Error"
    ELSE IF "warning" # "" THEN "Warning"
    ELSE level

\* lines 381-388: message.replace(new RegExp(path + ":(\\d+):(\\d+)"), ...)
\* rewrites the first location of the message that carries the path
RECURSIVE errMsg(_, _, _, _)
errMsg(message, path, inputFile, sm) ==
    IF message = <<>> THEN <<>>
    ELSE IF Head(message).ref /\ Head(message).path = path
    THEN << RefPart(inputFile, getRealLine(sm, Head(message).line),
                    Head(message).col) >> \o Tail(message)
    ELSE << Head(message) >> \o errMsg(Tail(message), path, inputFile, sm)

\* lines 369-396: the report logged for a diagnostic; range is what follows
\* the document path, line:col or line:col-line:col
Report(err, inputFile, sm) ==
    LET realBeginLine == getRealLine(sm, err.loc.start.line)
        realEndLine == getRealLine(sm, err.loc.end.line)
    IN  [ inputFile |-> inputFile,
          range |-> IF realBeginLine = realEndLine
                    THEN << realBeginLine, err.loc.start.col >>
                    ELSE << realBeginLine, err.loc.start.col,
                            realEndLine, err.loc.end.col >>,
          errCode |-> err.error_code,
          errLvl |-> errLvl(err.level),
          errMsg |-> errMsg(err.message, err.loc.path, inputFile, sm) ]

\* the two rules with the warning rule not guarded by the flag
Suppressed_AnyWarning(err) ==
    \/ err.level = "warning"
    \/ err.error_code \in errSet

\* lines 363-368: the two suppression rules
Suppressed(err) ==
    \/ globalWarningsSuppressed /\ err.level = "warning"
    \/ err.error_code \in errSet

\* lines 361-362 and 376-380: a TypeError leaves the loop when the line
\* carries no loc or the unit of the diagnostic has no anchor table
Throws(err) ==
    \/ err.form = "value"
    \/ /\ ~Suppressed(err.rec)
       /\ getRealLineThrows(sourceMap[basename(err.rec.loc.path)],
                            err.rec.loc.start.line)

\* one iteration of the loop of lines 360-397; an uncaught exception ends the
\* process with status 1
HandleDiagnostic ==
    /\ pc = "report"
    /\ errIdx < Len(errList)
    /\ LET err == errList[errIdx + 1]
       IN  IF Throws(err)
           THEN /\ pc' = "crashed"
                /\ exitCode' = 1
                /\ UNCHANGED << errIdx, printed >>
           ELSE /\ errIdx' = errIdx + 1
                /\ printed' =
                      IF Suppressed(err.rec) THEN printed
                      ELSE Append(printed,
                                  Report(err.rec, InputFile(fileIdx),
                                         sourceMap[basename(err.rec.loc.path)]))
                /\ UNCHANGED << pc, exitCode >>
    /\ UNCHANGED << cliVars, errSet, hasErrors, fileIdx, docVars, mapVars,
                    errList, failedChecks >>

\* lines 399-407: the loop is over, processMarkdown returns
Cleanup ==
    /\ pc = "report"
    /\ errIdx = Len(errList)
    /\ pc' = "loop"
    /\ fileIdx' = fileIdx + 1
    /\ UNCHANGED << cliVars, errSet, hasErrors, docVars, mapVars, errVars,
                    failedChecks, exitCode >>

(***************************************************************************)
(* The whole program: every document of the command line, one at a time.   *)
(***************************************************************************)
Chars_e1001 == <<"e", "1", "0", "0", "1">>

RunArgs == { <<>>, AllWarnings, Chars_e1001 }

RunInfos == { <<"moonbit">>, <<"moonbit", "no-check", "-e1001">> }

RunDocs == DocsOf(RunInfos, MaxRunFences, {1})

RunLines ==
    { OutLine("text", NoRecord), OutLine("null", NoRecord),
      OutLine("value", NoRecord) }
    \cup { OutLine("record",
                   Diagnostic(level, "/proj/src/top.mbt", 1, 1, 1, 2,
                              <<TextPart>>, code)) :
             level \in {"error", "warning"}, code \in {1001, 1002} }

OutputsOf(lines, maxOut) == UNION { [1..k -> lines] : k \in 0..maxOut }

RunOutputs == OutputsOf(RunLines, MaxOut)

Init == InitWith(RunArgs, BOOLEAN)

RunParse == pc = "read" /\ \E doc \in RunDocs : ParseReadme(doc)

RunScaffold == \E ok \in BOOLEAN : MakeTempProject(ok)

RunChecker ==
    pc = "check" /\ \E ok \in BOOLEAN, output \in RunOutputs : RunCheck(ok, output)

Next ==
    \/ ParseSuppress
    \/ NextFile
    \/ RunParse
    \/ RunScaffold
    \/ ClassifyToken
    \/ ClassifyDone
    \/ ProcessBlock
    \/ WrapDone
    \/ RunChecker
    \/ HandleDiagnostic
    \/ Cleanup
    \/ Exit

Spec == Init /\ [][Next]_vars

(***************************************************************************)
(* The program run on suppression lists (specification SpecCli).           *)
(***************************************************************************)
CodeNumbers == {7, 1001, 1002}

\* the decimal digits of n >= 0, by character
RECURSIVE Encode(_)
Encode(n) ==
    IF n < 10 THEN <<DigitChars[n + 1]>>
    ELSE Encode(n \div 10) \o <<DigitChars[(n % 10) + 1]>>

\* the items of a list, with commas between them
RECURSIVE Join(_)
Join(items) ==
    IF Len(items) = 1 THEN items[1]
    ELSE items[1] \o <<",">> \o Join(Tail(items))

NumberLists == UNION { [1..k -> CodeNumbers] : k \in 1..MaxItems }

\* the list of the numbers ns, every item behind the prefix
ListOf(ns, prefix) == Join([i \in 1..Len(ns) |-> prefix \o Encode(ns[i])])

RangeOf(ns) == { ns[i] : i \in 1..Len(ns) }

CliArgs ==
    { <<>>, AllWarnings }
    \cup { ListOf(ns, <<>>) : ns \in NumberLists }
    \cup { ListOf(ns, <<"e">>) : ns \in NumberLists }
    \cup { <<"=">> \o ListOf(ns, <<"e">>) : ns \in NumberLists }

CliDocs == DocsOf({ <<"moonbit">> }, 1, {1}) \ { <<>> }

CliLines ==
    { OutLine("record",
              Diagnostic("error", "/proj/src/top.mbt", 1, 1, 1, 2,
                         <<TextPart>>, code)) :
        code \in CodeNumbers \cup {1, 2} }

CliOutputs == [1..1 -> CliLines]

InitCli == InitWith(CliArgs, {FALSE})

CliParse == pc = "read" /\ \E doc \in CliDocs : ParseReadme(doc)

CliScaffold == MakeTempProject(TRUE)

CliChecker == pc = "check" /\ \E output \in CliOutputs : RunCheck(TRUE, output)

NextCli ==
    \/ ParseSuppress
    \/ NextFile
    \/ CliParse
    \/ CliScaffold
    \/ ClassifyToken
    \/ ClassifyDone
    \/ ProcessBlock
    \/ WrapDone
    \/ CliChecker
    \/ HandleDiagnostic
    \/ Cleanup
    \/ Exit

SpecCli == InitCli /\ [][NextCli]_vars

(***************************************************************************)
(* The program run on located diagnostics (specification SpecReport).      *)
(***************************************************************************)
ReportInfos == { <<"moonbit">>, <<"mbt", "expr">> }

ReportDocs == DocsOf(ReportInfos, MaxFences, 1..MaxContent)

ReportMessages(path) ==
    { <<TextPart>>,
      <<TextPart, RefPart(path, 1, 5)>>,
      <<RefPart(path, 1, 5), TextPart, RefPart(path, 2, 3)>>,
      <<RefPart("/proj/src/other.mbt", 1, 5)>> }

ReportLines ==
    { OutLine("record", Diagnostic(level, path, sl, 1, el, ec, message, 1001)) :
        level \in {"error", "warning", "info"},
        path \in UnitPaths,
        sl \in {1, 2},
        el \in {2, 3},
        ec \in {1, 2},
        message \in UNION { ReportMessages(p) : p \in UnitPaths } }

ReportOutputs == [1..1 -> ReportLines]

InitReport == InitWith({ <<>> }, {FALSE})

ReportParse == pc = "read" /\ \E doc \in ReportDocs : ParseReadme(doc)

ReportScaffold == MakeTempProject(TRUE)

ReportChecker ==
    pc = "check" /\ \E output \in ReportOutputs : RunCheck(TRUE, output)

NextReport ==
    \/ ParseSuppress
    \/ NextFile
    \/ ReportParse
    \/ ReportScaffold
    \/ ClassifyToken
    \/ ClassifyDone
    \/ ProcessBlock
    \/ WrapDone
    \/ ReportChecker
    \/ HandleDiagnostic
    \/ Cleanup
    \/ Exit

SpecReport == InitReport /\ [][NextReport]_vars

(***************************************************************************)
(* The program run on inline suppression codes (specification SpecInline). *)
(***************************************************************************)
InlineInfos ==
    { <<"moonbit">>, <<"moonbit", "-e1001">>,
      <<"moonbit", "no-check", "-e1001">>, <<"mbt", "expr", "-E1002">> }

InlineDocs == DocsOf(InlineInfos, MaxFences, {1})

InlineLines ==
    { OutLine("record",
              Diagnostic("error", "/proj/src/top.mbt", 1, 1, 1, 2,
                         <<TextPart>>, code)) :
        code \in {1001, 1002} }

InlineOutputs == OutputsOf(InlineLines, MaxOut)

InitInline == InitWith({ <<>> }, BOOLEAN)

InlineParse == pc = "read" /\ \E doc \in InlineDocs : ParseReadme(doc)

InlineScaffold == MakeTempProject(TRUE)

InlineChecker ==
    pc = "check" /\ \E output \in InlineOutputs : RunCheck(TRUE, output)

NextInline ==
    \/ ParseSuppress
    \/ NextFile
    \/ InlineParse
    \/ InlineScaffold
    \/ ClassifyToken
    \/ ClassifyDone
    \/ ProcessBlock
    \/ WrapDone
    \/ InlineChecker
    \/ HandleDiagnostic
    \/ Cleanup
    \/ Exit

SpecInline == InitInline /\ [][NextInline]_vars

(***************************************************************************)
(* The mapping specification: one document, from tokens to anchor tables.  *)
(***************************************************************************)
InitMap ==
    /\ pc = "read"
    /\ globalWarningsSuppressed = FALSE
    /\ errSet = {}
    /\ suppress = <<>>
    /\ ignore = FALSE
    /\ hasErrors = FALSE
    /\ fileIdx = 1
    /\ tokens = <<>>
    /\ tokIdx = 0
    /\ codeBlocks = <<>>
    /\ blockIdx = 0
    /\ sourceMap = NoEntries
    /\ line = NoLines
    /\ processedCodeBlocks = NoEntries
    /\ errList = <<>>
    /\ errIdx = 0
    /\ printed = <<>>
    /\ failedChecks = {}
    /\ exitCode = -1

MapParse == pc = "read" /\ \E doc \in MapDocs : ParseReadme(doc)

MapScaffold == MakeTempProject(TRUE)

NextMap ==
    \/ MapParse
    \/ MapScaffold
    \/ ClassifyToken
    \/ ClassifyDone
    \/ ProcessBlock
    \/ WrapDone

SpecMap == InitMap /\ [][NextMap]_vars

(***************************************************************************)
(* Claims about the anchor tables (specification SpecMap).                 *)
(***************************************************************************)
\* the 1-based line of a text on which its atom p lies
GenLineAt(text, p) == 1 + countLines(SubSeq(text, 1, p - 1))

\* the positions of the document's line d in the generated source of unit u
PositionsOf(u, d) ==
    { p \in 1..Len(Source(u)) : Source(u)[p] = LineText(d) }

\* the document lines (1-based) of the content of a code block
ContentLinesOf(block) ==
    (block.beginLine + 1)..(block.beginLine + countLines(block.content))

\* C1: once the tables of a document are built, getRealLine maps the generated
\* line of every content line of every checked fence back to the 1-based
\* document line of that content line.
C1_RoundTripLines ==
    pc = "check" =>
        \A i \in 1..Len(codeBlocks) :
            codeBlocks[i].kind # "no-check" =>
                \A d \in ContentLinesOf(codeBlocks[i]) :
                    \A p \in PositionsOf(codeBlocks[i].fileBelonged, d) :
                        LET u == codeBlocks[i].fileBelonged
                        IN  getRealLine(sourceMap[u], GenLineAt(Source(u), p)) = d

\* the tables, cursors and texts after the checked blocks of a list, in order
RECURSIVE WrapAll(_)
WrapAll(blocks) ==
    IF blocks = <<>>
    THEN [ sourceMap |-> NoEntries, line |-> NoLines,
           processedCodeBlocks |-> NoEntries ]
    ELSE LET r == WrapAll(SubSeq(blocks, 1, Len(blocks) - 1))
         IN  WrapBlock(blocks[Len(blocks)], r.sourceMap, r.line,
                       r.processedCodeBlocks)

Checked(blocks) == SelectSeq(blocks, LAMBDA b : b.kind # "no-check")

\* C6: after any number of blocks, the tables, cursors and generated texts are
\* those of the same blocks with the no-check blocks left out: a no-check
\* block adds no anchor and no text and moves no cursor.
C6_Exclusion ==
    pc \in {"wrap", "check"} =>
        LET r == WrapAll(Checked(SubSeq(codeBlocks, 1, blockIdx)))
        IN  /\ sourceMap = r.sourceMap
            /\ line = r.line
            /\ processedCodeBlocks = r.processedCodeBlocks

\* a no-check fence with content has been passed over, and a checked fence of
\* the same document has been wrapped after it
C6_Witness ==
    /\ pc = "check"
    /\ \E i, j \in 1..Len(codeBlocks) :
          /\ i < j
          /\ codeBlocks[i].kind = "no-check"
          /\ codeBlocks[i].content # <<>>
          /\ codeBlocks[j].kind # "no-check"
          /\ sourceMap[codeBlocks[j].fileBelonged] # <<>>

\* C7: in every unit's table the generatedLine values never decrease in
\* insertion order, after any prefix of the blocks.
C7_Monotone ==
    \A u \in Units :
        \A i, j \in 1..Len(sourceMap[u]) :
            i < j => sourceMap[u][i].generatedLine <= sourceMap[u][j].generatedLine

\* a unit holds the anchors of two blocks of different kinds, one of them
\* with empty content
C7_Witness ==
    \E u \in Units :
        /\ Len(sourceMap[u]) >= 4
        /\ \E i, j \in 1..Len(codeBlocks) :
              /\ i < j
              /\ codeBlocks[i].fileBelonged = u
              /\ codeBlocks[j].fileBelonged = u
              /\ codeBlocks[i].kind \notin {"no-check", codeBlocks[j].kind}
              /\ codeBlocks[j].kind # "no-check"
              /\ codeBlocks[i].content = <<>>
              /\ codeBlocks[j].content # <<>>

\* the number of newline characters of a text
Newlines(text) == Cardinality({ p \in 1..Len(text) : text[p] = NL })

\* the place of block i among the checked blocks of its unit
RankInUnit(i) ==
    Cardinality({ j \in 1..i :
                    /\ codeBlocks[j].kind # "no-check"
                    /\ codeBlocks[j].fileBelonged = codeBlocks[i].fileBelonged })

\* the generated text of the wrapped block i
WrappedOf(i) == processedCodeBlocks[codeBlocks[i].fileBelonged][RankInUnit(i)]

\* the wrapped blocks of a kind that hold at least one content line
WrappedWithContent(kind) ==
    { i \in 1..blockIdx :
        codeBlocks[i].kind = kind /\ ContentLinesOf(codeBlocks[i]) # {} }

\* the lines of the wrapped block i in front of its first content line
LeadingOf(i) ==
    LET w == WrappedOf(i)
        p == CHOOSE q \in 1..Len(w) : w[q] = LineText(codeBlocks[i].beginLine + 1)
    IN  Newlines(SubSeq(w, 1, p - 1))

\* the lines of the wrapped block i behind its last content line
TrailingOf(i) ==
    Newlines(WrappedOf(i)) - LeadingOf(i)
        - Cardinality(ContentLinesOf(codeBlocks[i]))

\* a diagnostic at generated line 2 of a one-line expr fence that is the first
\* of its unit resolves to the content line of the fence
ExprLineResolved(i) ==
    ( /\ Cardinality(ContentLinesOf(codeBlocks[i])) = 1
      /\ RankInUnit(i) = 1 )
    => getRealLine(sourceMap[codeBlocks[i].fileBelonged], 2)
           = codeBlocks[i].beginLine + 1

\* C12 (as claimed): an expr block is emitted as 2 leading boilerplate lines,
\* its content and 1 trailing boilerplate line, and generated line 2 of a
\* one-line expr fence that is first in its unit resolves to its content line.
C12_TwoLeadingOneTrailing ==
    \A i \in WrappedWithContent("expr") :
        /\ LeadingOf(i) = 2
        /\ TrailingOf(i) = 1
        /\ ExprLineResolved(i)

\* C12 (amended): an expr block is emitted as 1 leading boilerplate line, its
\* content and 2 trailing boilerplate lines, and generated line 2 of a
\* one-line expr fence that is first in its unit resolves to its content line.
C12_OneLeadingTwoTrailing ==
    \A i \in WrappedWithContent("expr") :
        /\ LeadingOf(i) = 1
        /\ TrailingOf(i) = 2
        /\ ExprLineResolved(i)

\* a one-line expr fence, first of its unit and followed by another block of
\* the unit, has been wrapped and its generated line 2 resolved
C12_Witness ==
    /\ pc = "check"
    /\ \E i \in WrappedWithContent("expr") :
          /\ Cardinality(ContentLinesOf(codeBlocks[i])) = 1
          /\ RankInUnit(i) = 1
          /\ Len(sourceMap[codeBlocks[i].fileBelonged]) = 4
          /\ getRealLine(sourceMap[codeBlocks[i].fileBelonged], 2)
                = codeBlocks[i].beginLine + 1

\* the 1-based places of the anchors of a table whose generatedLine is <= q
FloorOf(sm, q) == { k \in 1..Len(sm) : sm[k].generatedLine <= q }

\* the greatest element of a non-empty set of numbers
Greatest(S) == CHOOSE k \in S : \A j \in S : j <= k

\* the lines queried of unit u: from 0 to one line past the cursor
QueriedLines(u) == 0..(Cursor(line, u) + 1)

\* C13: for every non-empty anchor table the wrapping produces and every
\* queried line q, find returns the last anchor whose generatedLine <= q when
\* there is one and the first anchor of the table otherwise; it never returns
\* an anchor with generatedLine > q while an anchor with generatedLine <= q
\* exists.
C13_FloorSearch ==
    \A u \in Units :
        sourceMap[u] # <<>> =>
            \A q \in QueriedLines(u) :
                LET sm == sourceMap[u]
                    found == sm[find(sm, q, 0, Len(sm) - 1) + 1]
                IN  /\ FloorOf(sm, q) # {} => found = sm[Greatest(FloorOf(sm, q))]
                    /\ FloorOf(sm, q) = {} => found = sm[1]

\* the checked blocks wrapped so far
Wrapped == { i \in 1..blockIdx : codeBlocks[i].kind # "no-check" }

\* the begin anchor of the wrapped block i
BeginAnchorOf(i) ==
    sourceMap[codeBlocks[i].fileBelonged][2 * RankInUnit(i) - 1]

\* the 1-based line of the generated text of its unit on which the content of
\* the wrapped block i starts: the line of its first content line, or, for a
\* block without content, the line that follows its leading boilerplate
ContentStartOf(i) ==
    LET u == codeBlocks[i].fileBelonged
        before == Concat(SubSeq(processedCodeBlocks[u], 1, RankInUnit(i) - 1))
    IN  IF ContentLinesOf(codeBlocks[i]) # {}
        THEN LET p == CHOOSE q \in PositionsOf(u, codeBlocks[i].beginLine + 1) : TRUE
             IN  1 + Newlines(SubSeq(Source(u), 1, p - 1))
        ELSE 1 + Newlines(before \o Wrapper(codeBlocks[i].kind).leading)

\* C14: after any prefix of the blocks has been wrapped, the cursor of every
\* unit is 1 plus the number of newlines of the unit's generated text, and the
\* begin anchor of every wrapped block, of whatever kind, names the generated
\* line on which the content of the block starts.
C14_CursorConsistent ==
    /\ \A u \in Units : Cursor(line, u) = 1 + Newlines(Source(u))
    /\ \A i \in Wrapped : BeginAnchorOf(i).generatedLine = ContentStartOf(i)

\* an indented block with content has been wrapped and a later block of the
\* same unit starts behind it
C14_Witness ==
    /\ pc = "check"
    /\ \E i, j \in Wrapped :
          /\ i < j
          /\ codeBlocks[i].fileBelonged = codeBlocks[j].fileBelonged
          /\ codeBlocks[i].kind \in {"expr", "enclose"}
          /\ ContentLinesOf(codeBlocks[i]) # {}
          /\ ContentLinesOf(codeBlocks[j]) # {}
          /\ BeginAnchorOf(j).generatedLine > BeginAnchorOf(i).generatedLine + 2

(***************************************************************************)
(* Claims about the run of the process (specification Spec).               *)
(***************************************************************************)
\* C2: hasErrors is set, and the exit status is non-zero, if and only if the
\* `moon check` of at least one document failed: no other step sets it.
C2_ExitIffCheckFailed ==
    /\ hasErrors <=> (failedChecks # {})
    /\ pc = "exited" => (exitCode # 0 <=> failedChecks # {})

\* C3: the documents are processed one at a time in command-line order; a
\* `moon check` that fails is followed by the diagnostic loop of the same
\* document like one that succeeds; hasErrors is never reset; a process that
\* reaches the final test has processed every document, and its exit status
\* is non-zero whenever the check of any document failed.
C3_Sequential ==
    /\ [](pc = "exited" => fileIdx = NumFiles + 1)
    /\ [](exitCode # -1 /\ failedChecks # {} => exitCode # 0)
    /\ [][hasErrors => hasErrors']_vars
    /\ [][fileIdx' = fileIdx \/ (fileIdx' = fileIdx + 1 /\ pc = "report")]_vars
    /\ [][pc = "check" => (pc' = "report" /\ fileIdx' = fileIdx)]_vars

\* the check of the first document failed, the check of the last one did
\* not, the last document's diagnostics were printed and the status is 1
C3_Witness ==
    /\ pc = "exited"
    /\ failedChecks = {1}
    /\ fileIdx = NumFiles + 1
    /\ printed # <<>>
    /\ exitCode = 1

\* C4: a diagnostic that the loop handles is left out of the output exactly
\* when its code is in errSet or, all-warnings suppression being enabled, its
\* level is warning; enabling that suppression leaves out no diagnostic of
\* another level.
C4_SuppressionRules ==
    [][ (pc = "report" /\ errIdx' = errIdx + 1) =>
          LET err == errList[errIdx + 1].rec
              omitted == printed' = printed
          IN  /\ omitted <=> \/ err.error_code \in errSet
                             \/ globalWarningsSuppressed /\ err.level = "warning"
              /\ ~omitted => /\ Len(printed') = Len(printed) + 1
                             /\ printed'[Len(printed')].errCode = err.error_code
              /\ err.level # "warning" => (omitted <=> err.error_code \in errSet)
      ]_vars

\* with all-warnings suppression on and 1001 in errSet: a warning with
\* another code was left out, an error with another code was printed
C4_Witness ==
    /\ pc = "report"
    /\ globalWarningsSuppressed
    /\ errSet = {1001}
    /\ errIdx = 2
    /\ errList[1].rec.level = "warning"
    /\ errList[1].rec.error_code = 1002
    /\ errList[2].rec.level = "error"
    /\ errList[2].rec.error_code = 1002
    /\ Len(printed) = 1

\* C10: a line of the checker output that does not decode into a diagnostic
\* record is skipped and the run goes on: the process never ends at it.
C10_DecodeIsolation ==
    ~( /\ pc = "crashed"
       /\ errList[errIdx + 1].form # "record" )

\* C11: the translation of a decoded diagnostic never fails, whatever unit
\* and line it names: the process never ends at a diagnostic record.
C11_LookupNeverFails ==
    ~( /\ pc = "crashed"
       /\ errList[errIdx + 1].form = "record" )

(***************************************************************************)
(* Claims about the suppression list (specification SpecCli).              *)
(***************************************************************************)
\* the single diagnostic of the document has been handled by the loop
OneHandled == pc = "report" /\ Len(errList) = 1 /\ errIdx = 1

\* the diagnostic is left out exactly when its code is one of codes, and is
\* printed with its own code otherwise
FilteredBy(codes) ==
    /\ printed = <<>> <=> errList[1].rec.error_code \in codes
    /\ printed # <<>> => printed[1].errCode = errList[1].rec.error_code

\* C5 (as claimed): a --suppress list of bare numbers, such as 1001,1002,
\* puts exactly those numbers into errSet, so the diagnostics with those
\* codes are not printed and the others are.
C5_BareList ==
    \A ns \in NumberLists :
        (pc # "cli" /\ suppress = ListOf(ns, <<>>)) =>
            /\ errSet = RangeOf(ns)
            /\ OneHandled => FilteredBy(RangeOf(ns))

\* C5 (amended): a --suppress list whose items are the codes behind one
\* prefix character, such as e1001,e1002 or =e1001,e1002, puts exactly those
\* numbers into errSet, so the diagnostics with those codes are not printed
\* and the others are; the bare list 1001,1002 yields 1 and 2.
C5_PrefixedList ==
    /\ \A ns \in NumberLists, eq \in { <<>>, <<"=">> } :
          (pc # "cli" /\ suppress = eq \o ListOf(ns, <<"e">>)) =>
              /\ errSet = RangeOf(ns)
              /\ OneHandled => FilteredBy(RangeOf(ns))
    /\ (pc # "cli" /\ suppress = ListOf(<<1001, 1002>>, <<>>)) =>
          /\ errSet = {1, 2}
          /\ OneHandled => FilteredBy({1, 2})

\* the list e1001,e1002 was given and a diagnostic with code 1002 was left
\* out of the output
C5_Witness ==
    /\ suppress = ListOf(<<1001, 1002>>, <<"e">>)
    /\ OneHandled
    /\ errList[1].rec.error_code = 1002
    /\ printed = <<>>

(***************************************************************************)
(* Claims about the reports (specification SpecReport).                    *)
(***************************************************************************)
\* the single diagnostic of the document has been printed
OnePrinted == OneHandled /\ Len(printed) = 1

TableOf(err) == sourceMap[basename(err.loc.path)]

\* the translated begin and end line:col of a diagnostic
Translated(err) ==
    << getRealLine(TableOf(err), err.loc.start.line), err.loc.start.col,
       getRealLine(TableOf(err), err.loc.end.line), err.loc.end.col >>

\* C8: the report of a diagnostic determines its level, its code and its
\* translated begin and end line:col: no diagnostic that differs in one of
\* them has the same report.
C8_LosslessReport ==
    OnePrinted =>
        \A l \in ReportLines :
            ( /\ TableOf(l.rec) # <<>>
              /\ Report(l.rec, InputFile(fileIdx), TableOf(l.rec)) = printed[1] )
            => /\ l.rec.level = errList[1].rec.level
               /\ l.rec.error_code = errList[1].rec.error_code
               /\ Translated(l.rec) = Translated(errList[1].rec)

\* C9: in the printed message every location that carries the path of the
\* diagnostic's unit has been rewritten to the document: none is left.
C9_AllLocationsRewritten ==
    OnePrinted =>
        \A i \in 1..Len(printed[1].errMsg) :
            ~( /\ printed[1].errMsg[i].ref
               /\ printed[1].errMsg[i].path = errList[1].rec.loc.path )

(***************************************************************************)
(* Claims about the inline suppression codes (SpecInline).                 *)
(***************************************************************************)
\* the codes declared in the MoonBit fences of a document
DeclaredCodes(toks) ==
    UNION { InlineCodes(toks[i].info) :
              i \in { j \in 1..Len(toks) : IsMoonBit(toks[j].info) } }

\* C15: errSet only grows during a run, and the classification of a document
\* is over before any of its diagnostics is filtered: when the diagnostics of
\* a document are filtered, every code declared in a fence of the document,
\* of whatever kind and position, is in errSet, together with the codes of
\* the documents before it; a code enters errSet only when a fence of the
\* document being classified declares it, so it never filters a diagnostic
\* of an earlier document; a diagnostic is left out exactly when its code is
\* in errSet; with --ignore the classification leaves errSet as it is.
C15_InlineCodes ==
    [][ /\ errSet \subseteq errSet'
        /\ pc' = "report" =>
              /\ tokIdx' = Len(tokens')
              /\ ~ignore => DeclaredCodes(tokens') \subseteq errSet'
        /\ (pc # "cli" /\ errSet' # errSet) =>
              /\ pc = "classify"
              /\ ~ignore
              /\ errSet' = errSet \cup InlineCodes(tokens[tokIdx + 1].info)
        /\ (pc = "classify" /\ ignore) => errSet' = errSet
        /\ (pc = "report" /\ errIdx' = errIdx + 1) =>
              (printed' = printed <=>
                  errList[errIdx + 1].rec.error_code \in errSet)
      ]_vars

\* in the second document, whose first fence declares nothing and whose
\* second fence declares 1002, the diagnostics with the codes 1001 (declared
\* in the first document) and 1002 were both left out
C15_Witness ==
    /\ pc = "report"
    /\ fileIdx = 2
    /\ ~ignore
    /\ Len(tokens) = 2
    /\ DeclaredCodes(<<tokens[1]>>) = {}
    /\ DeclaredCodes(tokens) = {1002}
    /\ errSet = {1001, 1002}
    /\ Len(errList) = 2
    /\ errList[1].rec.error_code = 1001
    /\ errList[2].rec.error_code = 1002
    /\ errIdx = 2
    /\ printed = <<>>

====
